---------------------------- MODULE Spec2Model ----------------------------
(* Model of the legacy cache storage/codec layer:                          *)
(*   LegacyFileSource (index files + data blob), CS2OpcodeMappings,        *)
(*   Build727ClientscriptObfuscation (instruction codec), selectFsCache.   *)
EXTENDS Integers, Sequences, FiniteSets, TLC

VARIABLES
    indexFiles,   \* LegacyFileSource.indexFiles: major -> bytes of main_file_cache.idx<major>
    datFile,      \* main_file_cache.dat2: whether it exists, and its bytes
    calls,        \* one record per getFile call in flight (its locals and position)
    openHandles,  \* calls whose FileHandle on the data blob is currently open
    lastIndex,    \* outcome of the latest getCacheIndex call
    defLines,     \* the lines the opcode definition file was written from
    defFile,      \* the cs2MappingFile: whether one was given, is readable, its characters
    loadState,    \* position of the loadCS2Mappings call started by the constructor
    cs2Mappings,  \* LegacyFileSource.cs2Mappings (null or a CS2OpcodeMappings)
    decodeAnswers, \* answers of the getDecodeArgs calls made so far
    buffer,       \* state.buffer: the bytes of the instruction stream
    wstate,       \* the state object of the writeOpCode call (scan)
    rstate,       \* the state object of the readOpcode call (scan, endoffset)
    instr,        \* the instruction handed to writeOpCode
    decoded,      \* the instruction readOpcode returned
    phase,        \* "fresh", then "written" / "writeThrew", then "read" / "readThrew"
    files,        \* the directory listing handed to selectFsCache: file names
    fs,           \* the ScriptFS handed to selectFsCache: its class, its roothandle
    selected      \* what selectFsCache returned or threw

storeVars == <<indexFiles, datFile, calls, openHandles, lastIndex>>
tableVars == <<defLines, defFile, loadState, cs2Mappings, decodeAnswers>>
codecVars == <<buffer, wstate, rstate, instr, decoded, phase>>
detectVars == <<files, fs, selected>>
vars == <<storeVars, tableVars, codecVars, detectVars>>

--------------------------------------------------------------------------
(* Bounds of the model *)

MaxEntries == 2      \* complete 6-byte entries in a generated index file
MaxMinor == 3        \* largest recordId asked for
MaxMajor == 1        \* largest category asked for (only category 0 is registered)
NumCalls == 2        \* concurrent getFile calls
MaxLines == 3        \* lines of a generated opcode definition file
MaxStrLen == 2       \* UTF-16 code units of a string immediate
MaxStart == 1        \* largest start position in the instruction stream
BufLen == 8          \* bytes of the instruction stream buffer
MaxIdxFiles == 5     \* main_file_cache.idx<N> files in a directory
MaxSigFiles == 3     \* files of each other signature in a directory

--------------------------------------------------------------------------
(* Buffers: a Buffer is a sequence of bytes; JS offsets are 0-based *)

None == "None"

\* a CS2OpcodeMappings instance with its two Maps (lines 11-13), and null
EmptyMappings == [isNull |-> FALSE, mappings |-> <<>>, nameToOpcode |-> <<>>]
NullMappings == [isNull |-> TRUE, mappings |-> <<>>, nameToOpcode |-> <<>>]

Min(a, b) == IF a < b THEN a ELSE b
Max(a, b) == IF a > b THEN a ELSE b

RECURSIVE ReadUIntBE(_, _, _)
\* buf.readUIntBE(offset, byteLength)
ReadUIntBE(buf, offset, byteLength) ==
    IF byteLength = 0 THEN 0
    ELSE ReadUIntBE(buf, offset, byteLength - 1) * 256 + buf[offset + byteLength]

RECURSIVE WriteUIntBE(_, _)
\* the byteLength big-endian bytes of an unsigned value
WriteUIntBE(value, byteLength) ==
    IF byteLength = 0 THEN <<>>
    ELSE Append(WriteUIntBE(value \div 256, byteLength - 1), value % 256)

\* bytes [from, from+n) of buf, clipped to the end of buf (0-based from)
Slice(buf, from, n) ==
    LET avail == Min(n, Max(0, Len(buf) - from))
    IN  [i \in 1..avail |-> buf[from + i]]

--------------------------------------------------------------------------
(* LegacyFileSource: getFile and getCacheIndex *)

indexEntrySize == 6

Calls == 1..NumCalls
Majors == 0..MaxMajor
Minors == 0..MaxMinor

IdleCall == [pc |-> "idle", major |-> 0, minor |-> 0, size |-> 0, offset |-> 0,
             opened |-> FALSE, buffer |-> <<>>, bytesRead |-> 0, err |-> None,
             wrapped |-> FALSE]

\* getFile, lines 239-246: look up the index path; throw outside the try when
\* the major has no index file, otherwise suspend on readFile(indexPath)
GetFileCall(c, major, minor) ==
    /\ calls[c].pc = "idle"
    /\ calls' = [calls EXCEPT ![c] =
            IF major \notin DOMAIN indexFiles
            THEN [IdleCall EXCEPT !.pc = "threw", !.major = major, !.minor = minor,
                                  !.err = "IndexFileNotFound"]
            ELSE [IdleCall EXCEPT !.pc = "readIndex", !.major = major, !.minor = minor]]
    /\ UNCHANGED <<indexFiles, datFile, openHandles, lastIndex, tableVars, codecVars, detectVars>>

\* the bounds check of line 250
EntryOutOfIndex(entryOffset, indexLength) ==
    entryOffset + indexEntrySize > indexLength

\* an empty-entry test that never rejects
IsZeroSizeNever(size) == FALSE

\* the test of line 258
IsZeroSize(size) == size = 0

\* getFile, lines 246-263: the index file has been read; locate the entry,
\* reject a missing or empty one, otherwise suspend on open(datFile)
GetFileReadIndex(c) ==
    /\ calls[c].pc = "readIndex"
    /\ LET indexBuffer == indexFiles[calls[c].major]
           entryOffset == calls[c].minor * indexEntrySize
       IN  calls' = [calls EXCEPT ![c] =
             IF EntryOutOfIndex(entryOffset, Len(indexBuffer))
             THEN [@ EXCEPT !.pc = "threw", !.err = "NotFoundInIndex", !.wrapped = TRUE]
             ELSE LET size == ReadUIntBE(indexBuffer, entryOffset, 3)
                      offset == ReadUIntBE(indexBuffer, entryOffset + 3, 3)
                  IN  IF IsZeroSize(size)
                      THEN [@ EXCEPT !.pc = "threw", !.err = "ZeroSize", !.wrapped = TRUE,
                                     !.size = size, !.offset = offset]
                      ELSE [@ EXCEPT !.pc = "open", !.size = size, !.offset = offset]]
    /\ UNCHANGED <<indexFiles, datFile, openHandles, lastIndex, tableVars, codecVars, detectVars>>

\* getFile, line 263: fs.promises.open(datFile, 'r') settles; a missing blob
\* rejects (caught and wrapped at 276), otherwise the call owns an open handle
GetFileOpen(c) ==
    /\ calls[c].pc = "open"
    /\ IF ~datFile.exists
       THEN /\ calls' = [calls EXCEPT ![c] =
                    [@ EXCEPT !.pc = "threw", !.err = "OpenFailed", !.wrapped = TRUE]]
            /\ UNCHANGED openHandles
       ELSE /\ calls' = [calls EXCEPT ![c] = [@ EXCEPT !.pc = "read", !.opened = TRUE]]
            /\ openHandles' = openHandles \cup {c}
    /\ UNCHANGED <<indexFiles, datFile, lastIndex, tableVars, codecVars, detectVars>>

\* a read that ignores the position argument
ReadAtStart(file, size, offset) == Slice(file, 0, size)

\* fileHandle.read(buffer, 0, size, offset): the bytes available at offset
ReadAt(file, size, offset) == Slice(file, offset, size)

\* getFile, lines 265-270: allocate, read at the offset, compare the count;
\* either way control passes to the finally block (await close)
GetFileRead(c) ==
    /\ calls[c].pc = "read"
    /\ LET got == ReadAt(datFile.bytes, calls[c].size, calls[c].offset)
           bytesRead == Len(got)
           filled == got \o [i \in 1..(calls[c].size - bytesRead) |-> 0]
       IN  calls' = [calls EXCEPT ![c] =
             [@ EXCEPT !.pc = "close", !.buffer = filled, !.bytesRead = bytesRead,
                       !.err = IF bytesRead # calls[c].size THEN "ShortRead" ELSE None]]
    /\ UNCHANGED <<indexFiles, datFile, openHandles, lastIndex, tableVars, codecVars, detectVars>>

\* a finally block that releases the handle on the success path only
FinallyLeavesOnError(handles, c, err) == IF err = None THEN handles \ {c} ELSE handles

\* the handles left open once call c has run its finally block (line 274)
FinallyLeaves(handles, c, err) == handles \ {c}

\* getFile, lines 272-278: close has settled; return the buffer or rethrow wrapped
GetFileClose(c) ==
    /\ calls[c].pc = "close"
    /\ openHandles' = FinallyLeaves(openHandles, c, calls[c].err)
    /\ calls' = [calls EXCEPT ![c] =
            IF calls[c].err = None
            THEN [@ EXCEPT !.pc = "returned"]
            ELSE [@ EXCEPT !.pc = "threw", !.wrapped = TRUE]]
    /\ UNCHANGED <<indexFiles, datFile, lastIndex, tableVars, codecVars, detectVars>>

\* an existence test that also accepts empty slots
EntryExistsOrEmpty(size) == size >= 0

\* the test of line 318
EntryExists(size) == size > 0

\* the slot count of line 309
NumEntries(indexLength) == indexLength \div indexEntrySize

RECURSIVE CacheIndexLoop(_, _, _, _, _)
\* getCacheIndex, lines 313-333: the sparse array `indices`, as a function
\* whose domain is the set of assigned minors
CacheIndexLoop(indexBuffer, major, minor, numEntries, indices) ==
    IF ~(minor < numEntries) THEN indices
    ELSE LET entryOffset == minor * indexEntrySize
             size == ReadUIntBE(indexBuffer, entryOffset, 3)
             entry == [major |-> major, minor |-> minor, crc |-> 0, version |-> 0,
                       size |-> size, subindexcount |-> 1, uncompressed_crc |-> 0,
                       uncompressed_size |-> size]
             next == IF EntryExists(size)
                     THEN [m \in DOMAIN indices \cup {minor} |->
                              IF m = minor THEN entry ELSE indices[m]]
                     ELSE indices
         IN  CacheIndexLoop(indexBuffer, major, minor + 1, numEntries, next)

\* getCacheIndex(major), lines 300-339
GetCacheIndex(major) ==
    /\ lastIndex' =
         IF major \notin DOMAIN indexFiles
         THEN [major |-> major, err |-> "IndexFileNotFound", indices |-> <<>>]
         ELSE LET indexBuffer == indexFiles[major]
              IN  [major |-> major, err |-> None,
                   indices |-> CacheIndexLoop(indexBuffer, major, 0,
                                              NumEntries(Len(indexBuffer)), <<>>)]
    /\ UNCHANGED <<indexFiles, datFile, calls, openHandles, tableVars, codecVars, detectVars>>

NextStore ==
    \/ \E c \in DOMAIN calls, major \in Majors, minor \in Minors : GetFileCall(c, major, minor)
    \/ \E c \in DOMAIN calls : GetFileReadIndex(c)
    \/ \E c \in DOMAIN calls : GetFileOpen(c)
    \/ \E c \in DOMAIN calls : GetFileRead(c)
    \/ \E c \in DOMAIN calls : GetFileClose(c)
    \/ \E major \in Majors : GetCacheIndex(major)

--------------------------------------------------------------------------
(* CS2OpcodeMappings: text is a sequence of one-character strings *)

\* a JS Map: its entries in insertion order
MapHas(m, k) == \E i \in 1..Len(m) : m[i].key = k
MapGet(m, k) == m[CHOOSE i \in 1..Len(m) : m[i].key = k].value

\* a set that keeps the first value written for a key
MapSetKeepFirst(m, k, v) ==
    IF MapHas(m, k) THEN m ELSE Append(m, [key |-> k, value |-> v])

\* Map.prototype.set: overwrite in place, or append a new key
MapSet(m, k, v) ==
    IF MapHas(m, k)
    THEN [i \in 1..Len(m) |-> IF m[i].key = k THEN [key |-> k, value |-> v] ELSE m[i]]
    ELSE Append(m, [key |-> k, value |-> v])

WhiteSpace == {" ", "\t", "\r", "\n"}

RECURSIVE SplitOn(_, _)
\* String.prototype.split(sep) for a one-character separator
SplitOn(text, sep) ==
    IF \A i \in 1..Len(text) : text[i] # sep THEN <<text>>
    ELSE LET k == CHOOSE i \in 1..Len(text) :
                     text[i] = sep /\ \A j \in 1..(i - 1) : text[j] # sep
         IN  <<SubSeq(text, 1, k - 1)>> \o SplitOn(SubSeq(text, k + 1, Len(text)), sep)

RECURSIVE Trim(_)
\* String.prototype.trim
Trim(text) ==
    IF text = <<>> THEN text
    ELSE IF Head(text) \in WhiteSpace THEN Trim(Tail(text))
    ELSE IF text[Len(text)] \in WhiteSpace THEN Trim(SubSeq(text, 1, Len(text) - 1))
    ELSE text

StartsWith(text, prefix) ==
    Len(text) >= Len(prefix) /\ SubSeq(text, 1, Len(prefix)) = prefix

RECURSIVE SplitSpaces(_)
\* trimmed.split(/\s+/) on a trimmed, non-empty string
SplitSpaces(text) ==
    IF \A i \in 1..Len(text) : text[i] \notin WhiteSpace THEN <<text>>
    ELSE LET k == CHOOSE i \in 1..Len(text) :
                     text[i] \in WhiteSpace /\ \A j \in 1..(i - 1) : text[j] \notin WhiteSpace
             e == CHOOSE i \in (k + 1)..Len(text) :
                     text[i] \notin WhiteSpace /\ \A j \in k..(i - 1) : text[j] \in WhiteSpace
         IN  <<SubSeq(text, 1, k - 1)>> \o SplitSpaces(SubSeq(text, e, Len(text)))

DigitChars == <<"0", "1", "2", "3", "4", "5", "6", "7", "8", "9",
                "a", "b", "c", "d", "e", "f">>
UpperChars == <<"0", "1", "2", "3", "4", "5", "6", "7", "8", "9",
                "A", "B", "C", "D", "E", "F">>
IsDigit(ch, radix) ==
    \E i \in 1..radix : DigitChars[i] = ch \/ UpperChars[i] = ch
DigitValue(ch) ==
    (CHOOSE i \in 1..16 : DigitChars[i] = ch \/ UpperChars[i] = ch) - 1

RECURSIVE ParseDigits(_, _, _)
\* the value of the longest prefix of digits of text, continuing from acc
ParseDigits(text, radix, acc) ==
    IF text = <<>> \/ ~IsDigit(Head(text), radix) THEN acc
    ELSE ParseDigits(Tail(text), radix, acc * radix + DigitValue(Head(text)))

NaN == [nan |-> TRUE, value |-> 0]

\* a conversion that yields 0 where parseInt yields NaN
ParseIntOrZero(token) ==
    LET t == Trim(token)
    IN  IF t # <<>> /\ IsDigit(Head(t), 10)
        THEN [nan |-> FALSE, value |-> ParseDigits(t, 10, 0)]
        ELSE [nan |-> FALSE, value |-> 0]

\* parseInt(token) without a radix: optional sign, optional 0x prefix, then
\* the longest prefix of digits; NaN when there is none
ParseInt(token) ==
    LET t == Trim(token)
        neg == t # <<>> /\ Head(t) = "-"
        u == IF t # <<>> /\ Head(t) \in {"-", "+"} THEN Tail(t) ELSE t
        hex == Len(u) >= 2 /\ u[1] = "0" /\ u[2] \in {"x", "X"}
        d == IF hex THEN SubSeq(u, 3, Len(u)) ELSE u
        radix == IF hex THEN 16 ELSE 10
    IN  IF d = <<>> \/ ~IsDigit(Head(d), radix) THEN NaN
        ELSE [nan |-> FALSE,
              value |-> IF neg THEN 0 - ParseDigits(d, radix, 0) ELSE ParseDigits(d, radix, 0)]

\* the tests of lines 26, 31 and 40
IsBlankOrComment(trimmed) ==
    trimmed = <<>> \/ StartsWith(trimmed, <<"#">>) \/ StartsWith(trimmed, <<"/", "/">>)
TooFewParts(parts) == Len(parts) < 3


\* parseFromString, lines 25-52: the body of the loop for one line
ParseLine(loader, line) ==
    LET trimmed == Trim(line)
    IN  IF IsBlankOrComment(trimmed) THEN loader
        ELSE LET parts == SplitSpaces(trimmed)
             IN  IF TooFewParts(parts) THEN loader
                 ELSE LET opcode == ParseInt(parts[1])
                          name == parts[2]
                          mapping == [opcode |-> opcode.value, name |-> name,
                                      returnType |-> parts[3],
                                      paramTypes |-> SubSeq(parts, 4, Len(parts))]
                      IN  IF opcode.nan THEN loader
                          ELSE [loader EXCEPT
                                  !.mappings = MapSet(@, opcode.value, mapping),
                                  !.nameToOpcode = MapSet(@, name, opcode.value)]

RECURSIVE ParseLines(_, _)
ParseLines(loader, lines) ==
    IF lines = <<>> THEN loader
    ELSE ParseLines(ParseLine(loader, Head(lines)), Tail(lines))

\* CS2OpcodeMappings.parseFromString(content)
ParseFromString(content) == ParseLines(EmptyMappings, SplitOn(content, "\n"))

\* getMapping, getOpcodeByName, getAllMappings, hasOpcode
HasOpcode(table, opcode) == MapHas(table.mappings, opcode)
GetMapping(table, opcode) == MapGet(table.mappings, opcode)
HasName(table, name) == MapHas(table.nameToOpcode, name)
GetOpcodeByName(table, name) == MapGet(table.nameToOpcode, name)
GetAllMappings(table) == [i \in 1..Len(table.mappings) |-> table.mappings[i].value]

--------------------------------------------------------------------------
(* LegacyFileSource: the mapping load started by the constructor *)

\* loadCS2Mappings, lines 216-219: readFile resolved, the table is parsed and stored
LoadCS2Resolve ==
    /\ loadState = "pending"
    /\ defFile.readable
    /\ cs2Mappings' = ParseFromString(defFile.content)
    /\ loadState' = "loaded"
    /\ UNCHANGED <<defLines, defFile, decodeAnswers, storeVars, codecVars, detectVars>>

\* loadCS2Mappings, lines 220-223: readFile rejected, the catch stores null
LoadCS2Reject ==
    /\ loadState = "pending"
    /\ ~defFile.readable
    /\ cs2Mappings' = NullMappings
    /\ loadState' = "failed"
    /\ UNCHANGED <<defLines, defFile, decodeAnswers, storeVars, codecVars, detectVars>>

\* whether getDecodeArgs adds clientScriptDeob (line 230)
ProvidesDecoder(table) == ~table.isNull

\* getDecodeArgs, lines 226-235
GetDecodeArgs ==
    /\ decodeAnswers' = decodeAnswers \cup {ProvidesDecoder(cs2Mappings)}
    /\ UNCHANGED <<defLines, defFile, loadState, cs2Mappings, storeVars, codecVars, detectVars>>

NextLoad ==
    \/ LoadCS2Resolve
    \/ LoadCS2Reject
    \/ GetDecodeArgs

--------------------------------------------------------------------------
(* Build727ClientscriptObfuscation: readOpcode and writeOpCode *)

\* imm_obj: null, a number or a string (a sequence of UTF-16 code units)
NullObj == [kind |-> "null", num |-> 0, str |-> <<>>]
NumObj(n) == [kind |-> "number", num |-> n, str |-> <<>>]
StrObj(t) == [kind |-> "string", num |-> 0, str |-> t]

IsHighSurrogate(u) == u >= 55296 /\ u <= 56319
IsLowSurrogate(u) == u >= 56320 /\ u <= 57343

\* the UTF-8 bytes of one code point
Utf8OfCodePoint(cp) ==
    IF cp < 128 THEN <<cp>>
    ELSE IF cp < 2048 THEN <<192 + (cp \div 64), 128 + (cp % 64)>>
    ELSE IF cp < 65536
         THEN <<224 + (cp \div 4096), 128 + ((cp \div 64) % 64), 128 + (cp % 64)>>
    ELSE <<240 + (cp \div 262144), 128 + ((cp \div 4096) % 64),
           128 + ((cp \div 64) % 64), 128 + (cp % 64)>>

RECURSIVE Utf8Encode(_)
\* Buffer.from(str, 'utf8'): surrogate pairs combine, a lone surrogate
\* becomes U+FFFD
Utf8Encode(units) ==
    IF units = <<>> THEN <<>>
    ELSE LET u == Head(units)
         IN  IF IsHighSurrogate(u) /\ Len(units) >= 2 /\ IsLowSurrogate(units[2])
             THEN Utf8OfCodePoint(65536 + (u - 55296) * 1024 + (units[2] - 56320))
                      \o Utf8Encode(Tail(Tail(units)))
             ELSE IF IsHighSurrogate(u) \/ IsLowSurrogate(u)
             THEN Utf8OfCodePoint(65533) \o Utf8Encode(Tail(units))
             ELSE Utf8OfCodePoint(u) \o Utf8Encode(Tail(units))

IsCont(bytes, i) == i <= Len(bytes) /\ bytes[i] >= 128 /\ bytes[i] <= 191

\* the UTF-16 code units of one code point
UnitsOfCodePoint(cp) ==
    IF cp < 65536 THEN <<cp>>
    ELSE <<55296 + ((cp - 65536) \div 1024), 56320 + ((cp - 65536) % 1024)>>

RECURSIVE Utf8Decode(_)
\* buf.toString('utf8'): well-formed sequences decode to their code point, any
\* other byte to U+FFFD
Utf8Decode(bytes) ==
    IF bytes = <<>> THEN <<>>
    ELSE LET b == Head(bytes)
             rest(n) == SubSeq(bytes, n + 1, Len(bytes))
         IN  IF b < 128 THEN <<b>> \o Utf8Decode(rest(1))
             ELSE IF b >= 194 /\ b <= 223 /\ IsCont(bytes, 2)
             THEN <<(b - 192) * 64 + (bytes[2] - 128)>> \o Utf8Decode(rest(2))
             ELSE IF b >= 224 /\ b <= 239 /\ IsCont(bytes, 2) /\ IsCont(bytes, 3)
                     /\ (b - 224) * 4096 + (bytes[2] - 128) * 64 + (bytes[3] - 128) >= 2048
                     /\ ~IsHighSurrogate((b - 224) * 4096 + (bytes[2] - 128) * 64 + (bytes[3] - 128))
                     /\ ~IsLowSurrogate((b - 224) * 4096 + (bytes[2] - 128) * 64 + (bytes[3] - 128))
             THEN <<(b - 224) * 4096 + (bytes[2] - 128) * 64 + (bytes[3] - 128)>>
                      \o Utf8Decode(rest(3))
             ELSE IF b >= 240 /\ b <= 244 /\ IsCont(bytes, 2) /\ IsCont(bytes, 3)
                     /\ IsCont(bytes, 4)
                     /\ (b - 240) * 262144 + (bytes[2] - 128) * 4096 >= 65536
                     /\ (b - 240) * 262144 + (bytes[2] - 128) * 4096 < 1114112
             THEN UnitsOfCodePoint((b - 240) * 262144 + (bytes[2] - 128) * 4096
                                       + (bytes[3] - 128) * 64 + (bytes[4] - 128))
                      \o Utf8Decode(rest(4))
             ELSE <<65533>> \o Utf8Decode(rest(1))

\* the four bytes buf.writeInt32BE stores for a 32-bit signed value
Int32Bytes(value) ==
    <<(value \div 16777216) % 256>> \o WriteUIntBE(value % 16777216, 3)

\* buf.readInt32BE(offset)
ReadInt32BE(buf, offset) ==
    LET b0 == buf[offset + 1]
    IN  (IF b0 >= 128 THEN b0 - 256 ELSE b0) * 16777216 + ReadUIntBE(buf, offset + 1, 3)

\* buf with bytes stored from offset on, clipped to the end of buf
WriteBytes(buf, offset, bytes) ==
    [i \in 1..Len(buf) |->
        IF i > offset /\ i <= offset + Len(bytes) THEN bytes[i - offset] ELSE buf[i]]

TypeInt == <<"i", "n", "t">>
TypeComponent == <<"c", "o", "m", "p", "o", "n", "e", "n", "t">>
TypeString == <<"s", "t", "r", "i", "n", "g">>

RECURSIVE ScanToZero(_, _, _)
\* the loop of lines 122-124: the position where the scan stops
ScanToZero(buf, scan, endoffset) ==
    IF scan < endoffset /\ (scan >= Len(buf) \/ buf[scan + 1] # 0)
    THEN ScanToZero(buf, scan + 1, endoffset)
    ELSE scan

NoInstr == [opcode |-> 0, imm |-> 0, imm_obj |-> NullObj, name |-> <<>>,
            returnType |-> <<>>, paramTypes |-> <<>>]

\* readOpcode, lines 87-138: the returned instruction, the cursor, and whether
\* a Buffer read threw a RangeError
ReadOpcodeResult(table, buf, scan0, endoffset) ==
    IF scan0 + 2 > Len(buf)
    THEN [threw |-> TRUE, scan |-> scan0, value |-> NoInstr]
    ELSE
    LET rawOpcode == ReadUIntBE(buf, scan0, 2)
        scan1 == scan0 + 2
    IN  IF ~HasOpcode(table, rawOpcode)
        THEN [threw |-> FALSE, scan |-> scan1,
              value |-> [opcode |-> rawOpcode, imm |-> 0, imm_obj |-> NullObj,
                         name |-> <<"u", "n", "k", "n", "o", "w", "n", "_">>,
                         returnType |-> <<"u", "n", "k", "n", "o", "w", "n">>,
                         paramTypes |-> <<>>]]
        ELSE
        LET mapping == GetMapping(table, rawOpcode)
            firstParam == IF Len(mapping.paramTypes) > 0 THEN mapping.paramTypes[1] ELSE <<>>
            result(imm, obj) == [opcode |-> rawOpcode, imm |-> imm, imm_obj |-> obj,
                                 name |-> mapping.name, returnType |-> mapping.returnType,
                                 paramTypes |-> mapping.paramTypes]
        IN  IF Len(mapping.paramTypes) > 0 /\ firstParam \in {TypeInt, TypeComponent}
            THEN IF scan1 + 4 > Len(buf)
                 THEN [threw |-> TRUE, scan |-> scan1, value |-> NoInstr]
                 ELSE LET imm == ReadInt32BE(buf, scan1)
                      IN  [threw |-> FALSE, scan |-> scan1 + 4,
                           value |-> result(imm, NumObj(imm))]
            ELSE IF Len(mapping.paramTypes) > 0 /\ firstParam = TypeString
            THEN LET stringStart == scan1
                     stop == ScanToZero(buf, scan1, endoffset)
                     text == Utf8Decode(Slice(buf, stringStart, stop - stringStart))
                 IN  [threw |-> FALSE, scan |-> stop + 1,
                      value |-> result(0, StrObj(text))]
            ELSE [threw |-> FALSE, scan |-> scan1, value |-> result(0, NullObj)]

\* a string immediate written without its terminator
TerminatorMissing == <<>>

\* the bytes writeOpCode stores after a string immediate (line 154)
Terminator == <<0>>

\* writeOpCode, lines 140-157: the buffer and cursor it leaves, and whether a
\* Buffer write threw a RangeError
WriteOpCodeResult(buf, scan0, value) ==
    IF scan0 + 2 > Len(buf)
    THEN [threw |-> TRUE, scan |-> scan0, buffer |-> buf]
    ELSE
    LET buf1 == WriteBytes(buf, scan0, WriteUIntBE(value.opcode, 2))
        scan1 == scan0 + 2
    IN  IF value.imm_obj.kind = "number"
        THEN IF scan1 + 4 > Len(buf)
             THEN [threw |-> TRUE, scan |-> scan1, buffer |-> buf1]
             ELSE [threw |-> FALSE, scan |-> scan1 + 4,
                   buffer |-> WriteBytes(buf1, scan1, Int32Bytes(value.imm_obj.num))]
        ELSE IF value.imm_obj.kind = "string"
        THEN LET stringBytes == Utf8Encode(value.imm_obj.str)
                 buf2 == WriteBytes(buf1, scan1, stringBytes)
                 scan2 == scan1 + Len(stringBytes)
             IN  IF scan2 >= Len(buf)
                 THEN [threw |-> TRUE, scan |-> scan2 + 1, buffer |-> buf2]
                 ELSE [threw |-> FALSE, scan |-> scan2 + 1,
                       buffer |-> WriteBytes(buf2, scan2, Terminator)]
        ELSE [threw |-> FALSE, scan |-> scan1, buffer |-> buf1]

\* writeOpCode(state, value) on the write state
WriteOpCode ==
    /\ phase = "fresh"
    /\ LET r == WriteOpCodeResult(buffer, wstate.scan, instr)
       IN  /\ buffer' = r.buffer
           /\ wstate' = [wstate EXCEPT !.scan = r.scan]
           /\ phase' = IF r.threw THEN "writeThrew" ELSE "written"
    /\ UNCHANGED <<rstate, instr, decoded, storeVars, tableVars, detectVars>>

\* readOpcode(state) on the read state, over the buffer as it stands
ReadOpcode ==
    /\ phase \in {"fresh", "written"}
    /\ LET r == ReadOpcodeResult(cs2Mappings, buffer, rstate.scan, rstate.endoffset)
       IN  /\ rstate' = [rstate EXCEPT !.scan = r.scan]
           /\ decoded' = r.value
           /\ phase' = IF r.threw THEN "readThrew"
                       ELSE IF phase = "written" THEN "decoded" ELSE "read"
    /\ UNCHANGED <<buffer, wstate, instr, storeVars, tableVars, detectVars>>

NextCodec ==
    \/ WriteOpCode
    \/ ReadOpcode

--------------------------------------------------------------------------
(* selectFsCache *)

LowerLetters == {"a", "b", "c", "d", "e", "f", "g", "h", "i", "j", "k", "l", "m", "n",
                 "o", "p", "q", "r", "s", "t", "u", "v", "w", "x", "y", "z"}
DecimalDigits == {"0", "1", "2", "3", "4", "5", "6", "7", "8", "9"}
\* the class \w
WordChars == LowerLetters \cup DecimalDigits \cup {"_"}

NoMatch == <<"?">>

\* file.name.match(/\.(\w+)$/)?.[1]: the word characters after the last dot
\* that is followed by word characters only, or no match
ExtOf(name) ==
    IF \E k \in 1..(Len(name) - 1) :
           name[k] = "." /\ \A j \in (k + 1)..Len(name) : name[j] \in WordChars
    THEN LET k == CHOOSE i \in 1..(Len(name) - 1) :
                     name[i] = "." /\ \A j \in (i + 1)..Len(name) : name[j] \in WordChars
         IN  SubSeq(name, k + 1, Len(name))
    ELSE NoMatch

IdxPrefix == <<"m", "a", "i", "n", "_", "f", "i", "l", "e", "_", "c", "a", "c", "h", "e", ".", "i", "d", "x">>

\* file.name.match(/^main_file_cache\.idx\d+$/)
IsIdxName(name) ==
    /\ Len(name) > Len(IdxPrefix)
    /\ SubSeq(name, 1, Len(IdxPrefix)) = IdxPrefix
    /\ \A j \in (Len(IdxPrefix) + 1)..Len(name) : name[j] \in DecimalDigits

ExtJcache == <<"j", "c", "a", "c", "h", "e">>
ExtDat2 == <<"d", "a", "t", "2">>
ExtDat == <<"d", "a", "t">>
ExtJag == <<"j", "a", "g">>

\* lines 12-26: the five counters after the loop over the listing
CountFiles(listing) ==
    [jcachecount |-> Cardinality({f \in listing : ExtOf(f) = ExtJcache}),
     dat2count |-> Cardinality({f \in listing : ExtOf(f) = ExtDat2}),
     datcount |-> Cardinality({f \in listing : ExtOf(f) = ExtDat}),
     jagcount |-> Cardinality({f \in listing : ExtOf(f) = ExtJag}),
     idxcount |-> Cardinality({f \in listing : IsIdxName(f)})]

Max5(a, b, c, d, e) == Max(a, Max(b, Max(c, Max(d, e))))

Returned(store) == [store |-> store, error |-> None]
Threw(error) == [store |-> None, error |-> error]

\* lines 53-62: the checks after the legacy branch
AfterLegacy(n, maxcount) ==
    IF maxcount = n.jagcount THEN Returned("ClassicFileSource")
    ELSE Threw("couldn't detect cache type")

\* lines 28-62: the store returned, or the error thrown
SelectResult(n, f) ==
    LET maxcount == Max5(n.jcachecount, n.datcount, n.dat2count, n.jagcount, n.idxcount)
    IN  IF maxcount = 0 THEN Threw("no cache files found in selected directory")
        ELSE IF maxcount = n.jcachecount /\ f.class = "CLIScriptFS"
        THEN Returned("GameCacheLoader")
        ELSE IF maxcount = n.jcachecount /\ f.class = "WebFsScriptFS"
        THEN IF ~f.roothandle THEN Threw("need fs with hard disk backing")
             ELSE Returned("WasmGameCacheLoader")
        ELSE IF maxcount = n.idxcount /\ n.dat2count > 0
        THEN IF f.class = "CLIScriptFS" THEN Returned("LegacyFileSource")
             ELSE Threw("Legacy cache format requires filesystem access")
        ELSE AfterLegacy(n, maxcount)

\* selectFsCache(fs, opts), lines 9-63; a LegacyFileSource is constructed with
\* the mapping file rs2_727.ini, whose load its constructor starts
SelectFsCache ==
    /\ selected = Threw("not called")
    /\ selected' = SelectResult(CountFiles(files), fs)
    /\ IF selected'.store = "LegacyFileSource"
       THEN /\ defFile' = [defFile EXCEPT !.given = TRUE]
            /\ loadState' = "pending"
       ELSE UNCHANGED <<defFile, loadState>>
    /\ UNCHANGED <<files, fs, defLines, cs2Mappings, decodeAnswers, storeVars, codecVars>>

NextDetect ==
    \/ SelectFsCache
    \/ LoadCS2Resolve
    \/ LoadCS2Reject

--------------------------------------------------------------------------
(* Inputs: index files and data blobs *)

\* one 6-byte index entry: 3 bytes size, 3 bytes offset, big-endian
Entry(size, offset) == WriteUIntBE(size, 3) \o WriteUIntBE(offset, 3)

EntrySizes == {0, 2, 256}
EntryOffsets == {1, 258}
Entries == {Entry(s, o) : s \in EntrySizes, o \in EntryOffsets}

\* trailing bytes that do not make a complete entry
Tails == {<<>>, <<0, 0, 1, 0>>}

RECURSIVE Concat(_)
Concat(seqs) == IF seqs = <<>> THEN <<>> ELSE Head(seqs) \o Concat(Tail(seqs))

EntryLists == UNION {[1..n -> Entries] : n \in 0..MaxEntries}
IndexFileSet == {Concat(es) \o t : es \in EntryLists, t \in Tails}

\* a blob of n bytes with a position-dependent pattern
Blob(n, seed) == [i \in 1..n |-> (i * 37 + seed) % 256]
NoFile == [exists |-> FALSE, bytes |-> <<>>]
BlobSet == {[exists |-> TRUE, bytes |-> Blob(n, 11)] : n \in {0, 4, 259, 260}} \cup {NoFile}
NoIndexCall == [major |-> 0, err |-> "NoCall", indices |-> <<>>]

--------------------------------------------------------------------------
(* Inputs: opcode definition files *)

\* definition lines, each with what a reader of the file format expects of it:
\* kind is "def" (a definition of opcode/name), "bad" (malformed) or "skip"
\* (blank or comment)
DefLine(text, kind, opcode, name) ==
    [text |-> text, kind |-> kind, opcode |-> opcode, name |-> name]

DefLineSet == {
    \* 1 a v
    DefLine(<<"1", " ", "a", " ", "v">>, "def", 1, <<"a">>),
    \* 1 b v int            (opcode 1 again)
    DefLine(<<"1", " ", "b", " ", "v", " ", "i", "n", "t">>, "def", 1, <<"b">>),
    \* 2 a i string         (name a again)
    DefLine(<<"2", " ", "a", " ", "i", " ", "s", "t", "r">>, "def", 2, <<"a">>),
    \* <tab>258  cc<tab>v <cr>   (runs of whitespace, CRLF ending)
    DefLine(<<"\t", "2", "5", "8", " ", " ", "c", "c", "\t", "v", " ", "\r">>,
            "def", 258, <<"c", "c">>),
    \* 0x1F d v             (a format parseInt accepts)
    DefLine(<<"0", "x", "1", "F", " ", "d", " ", "v">>, "def", 31, <<"d">>),
    \* x1 e v               (non-numeric first token)
    DefLine(<<"x", "1", " ", "e", " ", "v">>, "bad", 0, <<"e">>),
    \* 3 f                  (fewer than 3 tokens)
    DefLine(<<"3", " ", "f">>, "bad", 3, <<"f">>),
    \* # 4 g v
    DefLine(<<"#", " ", "4", " ", "g", " ", "v">>, "skip", 4, <<"g">>),
    \* //5 h v
    DefLine(<<"/", "/", "5", " ", "h", " ", "v">>, "skip", 5, <<"h">>),
    \* blank
    DefLine(<<" ">>, "skip", 0, <<>>)
}

RECURSIVE JoinLines(_)
JoinLines(lines) ==
    IF lines = <<>> THEN <<>>
    ELSE IF Len(lines) = 1 THEN lines[1].text
    ELSE lines[1].text \o <<"\n">> \o JoinLines(Tail(lines))

DefLineLists == UNION {[1..n -> DefLineSet] : n \in 0..MaxLines}

--------------------------------------------------------------------------
(* Inputs: instruction streams and instructions *)

\* the definition text the codec's table is parsed from:
\*   0 nop v long int / 65 str v string / 16640 pushi v int /
\*   258 comp v component int / 7 ret v
CodecDefs ==
    <<"0", " ", "n", "o", "p", " ", "v", " ", "l", "o", "n", "g", " ", "i",
      "n", "t", "\n", "6", "5", " ", "s", "t", "r", " ", "v", " ", "s",
      "t", "r", "i", "n", "g", "\n", "1", "6", "6", "4", "0", " ", "p",
      "u", "s", "h", "i", " ", "v", " ", "i", "n", "t", "\n", "2", "5",
      "8", " ", "c", "o", "m", "p", " ", "v", " ", "c", "o", "m", "p", "o",
      "n", "e", "n", "t", " ", "i", "n", "t", "\n", "7", " ", "r", "e",
      "t", " ", "v">>

CodecOpcodes == {0, 65, 16640, 258, 7, 16705}

FillBytes == {0, 65}
Streams == {<<a, b>> \o [i \in 1..(BufLen - 2) |-> f] :
               a \in FillBytes, b \in FillBytes, f \in FillBytes}

CodeUnits == {0, 65, 233, 55296, 56320}
Strings == UNION {[1..n -> CodeUnits] : n \in 0..MaxStrLen}
Numbers == {-2147483647 - 1, -1, 0, 1, 256, 2147483647}
ImmObjs == {NullObj} \cup {NumObj(n) : n \in Numbers} \cup {StrObj(t) : t \in Strings}

\* an Instruction value: imm is the numeric projection of imm_obj
Instr(opcode, obj) ==
    [opcode |-> opcode, imm |-> obj.num, imm_obj |-> obj, name |-> <<>>,
     returnType |-> <<>>, paramTypes |-> <<>>]
Instructions == {Instr(o, obj) : o \in CodecOpcodes, obj \in ImmObjs}

--------------------------------------------------------------------------
(* Inputs: directory listings and file systems *)

Digit(i) == DigitChars[i + 1]

\* the i-th file name of each signature, and names that match none
IdxName(i) == IdxPrefix \o <<Digit(i)>>
JcacheName(i) == <<"j", "s", Digit(i), ".">> \o ExtJcache
Dat2Name(i) == <<"m", Digit(i), ".">> \o ExtDat2
DatName(i) == <<"m", Digit(i), ".">> \o ExtDat
JagName(i) == <<"c", Digit(i), ".">> \o ExtJag
OtherNames == {IdxPrefix, <<"d", "a", "t">>, <<"x", ".", "j", "a", "g", "-">>}

\* a directory with the given number of files of each signature
Directory(d) ==
    {IdxName(i) : i \in 0..(d.idx - 1)} \cup {JcacheName(i) : i \in 0..(d.jcache - 1)}
    \cup {Dat2Name(i) : i \in 0..(d.dat2 - 1)} \cup {DatName(i) : i \in 0..(d.dat - 1)}
    \cup {JagName(i) : i \in 0..(d.jag - 1)} \cup d.other

DirectoryShapes ==
    [idx : 0..MaxIdxFiles, jcache : 0..MaxSigFiles, dat2 : 0..MaxSigFiles, dat : 0..MaxSigFiles,
     jag : 0..MaxSigFiles, other : {{}, OtherNames}]

FileSystems ==
    {[class |-> "CLIScriptFS", roothandle |-> FALSE],
     [class |-> "WebFsScriptFS", roothandle |-> TRUE],
     [class |-> "WebFsScriptFS", roothandle |-> FALSE],
     [class |-> "OtherScriptFS", roothandle |-> FALSE]}

--------------------------------------------------------------------------
(* Initial states and specifications, one per component; the variables of  *)
(* the other components stay at their unused values                        *)

\* the parts of the state a specification does not use
NoStore ==
    /\ indexFiles = [m \in {0} |-> <<>>]
    /\ datFile = NoFile
    /\ calls = [c \in {1} |-> IdleCall]
    /\ openHandles = {}
    /\ lastIndex = NoIndexCall

NoTable ==
    /\ defLines = <<>>
    /\ defFile = [given |-> FALSE, readable |-> FALSE, content |-> <<>>]
    /\ loadState = "none"
    /\ cs2Mappings = NullMappings
    /\ decodeAnswers = {}

NoCodec ==
    /\ buffer = <<>>
    /\ wstate = [scan |-> 0]
    /\ rstate = [scan |-> 0, endoffset |-> 0]
    /\ instr = NoInstr
    /\ decoded = NoInstr
    /\ phase = "off"

NoDetect ==
    /\ files = {}
    /\ fs = [class |-> "CLIScriptFS", roothandle |-> FALSE]
    /\ selected = Threw("off")

\* a store over one registered category, one getFile call at a time
InitStore ==
    /\ indexFiles \in [{0} -> IndexFileSet]
    /\ datFile \in BlobSet
    /\ calls = [c \in {1} |-> IdleCall]
    /\ openHandles = {}
    /\ lastIndex = NoIndexCall
    /\ NoTable
    /\ NoCodec
    /\ NoDetect

SpecStore == InitStore /\ [][NextStore]_vars

\* concurrent calls on a small snapshot
ConcIndexFiles == {Entry(2, 1) \o Entry(0, 0) \o Entry(3, 2) \o <<0, 0, 1>>}
ConcBlobs == {[exists |-> TRUE, bytes |-> Blob(4, 11)], NoFile}

InitStoreConc ==
    /\ indexFiles \in [{0} -> ConcIndexFiles]
    /\ datFile \in ConcBlobs
    /\ calls = [c \in Calls |-> IdleCall]
    /\ openHandles = {}
    /\ lastIndex = NoIndexCall
    /\ NoTable
    /\ NoCodec
    /\ NoDetect

SpecStoreConc == InitStoreConc /\ [][NextStore]_vars

\* the state when the LegacyFileSource constructor returns (lines 177-189):
\* cs2Mappings is still null and, when a mapping file was named, its load is pending
InitLoad ==
    /\ defLines \in DefLineLists
    /\ defFile \in {[given |-> g, readable |-> r, content |-> JoinLines(defLines)] :
                       g \in BOOLEAN, r \in BOOLEAN}
    /\ ~defFile.readable => defLines = <<>>
    /\ ~defFile.given => defLines = <<>> /\ ~defFile.readable
    /\ loadState = IF defFile.given THEN "pending" ELSE "none"
    /\ cs2Mappings = NullMappings
    /\ decodeAnswers = {}
    /\ NoStore
    /\ NoCodec
    /\ NoDetect

SpecLoad == InitLoad /\ [][NextLoad]_vars

\* a codec over a table parsed from CodecDefs, a stream and an instruction
InitCodec ==
    /\ buffer \in Streams
    /\ \E start \in 0..MaxStart :
          /\ wstate = [scan |-> start]
          /\ rstate \in {[scan |-> start, endoffset |-> e] : e \in {BufLen - 1, BufLen}}
    /\ instr \in Instructions
    /\ decoded = NoInstr
    /\ phase = "fresh"
    /\ defLines = <<>>
    /\ defFile = [given |-> TRUE, readable |-> TRUE, content |-> CodecDefs]
    /\ loadState = "loaded"
    /\ cs2Mappings = ParseFromString(CodecDefs)
    /\ decodeAnswers = {}
    /\ NoStore
    /\ NoDetect

SpecCodec == InitCodec /\ [][NextCodec]_vars

\* a directory and a file system about to be handed to selectFsCache; the
\* definition file rs2_727.ini may or may not be readable
InitDetect ==
    /\ files \in {Directory(d) : d \in DirectoryShapes}
    /\ fs \in FileSystems
    /\ selected = Threw("not called")
    /\ defLines = <<>>
    /\ defFile \in {[given |-> FALSE, readable |-> r, content |-> <<>>] : r \in BOOLEAN}
    /\ loadState = "none"
    /\ cs2Mappings = NullMappings
    /\ decodeAnswers = {}
    /\ NoStore
    /\ NoCodec

SpecDetect == InitDetect /\ [][NextDetect]_vars

--------------------------------------------------------------------------
(* Claims about LegacyFileSource *)

Finished(c) == calls[c].pc \in {"returned", "threw"}

\* the index entry of (major, minor), read byte by byte from the index file
StoredSize(major, minor) ==
    LET f == indexFiles[major]
    IN  f[6 * minor + 1] * 65536 + f[6 * minor + 2] * 256 + f[6 * minor + 3]
StoredOffset(major, minor) ==
    LET f == indexFiles[major]
    IN  f[6 * minor + 4] * 65536 + f[6 * minor + 5] * 256 + f[6 * minor + 6]
HasEntry(major, minor) ==
    /\ major \in DOMAIN indexFiles
    /\ 6 * minor + 6 <= Len(indexFiles[major])

\* C1: a finished getFile call for an entry with size S > 0 and offset O, with
\* O + S inside the existing data blob, has returned exactly S bytes, and byte
\* i of the result is byte O + i of the blob.
C1_GetFileReturnsBlobRange ==
    \A c \in DOMAIN calls :
        LET major == calls[c].major
            minor == calls[c].minor
        IN  (/\ Finished(c)
             /\ HasEntry(major, minor)
             /\ StoredSize(major, minor) > 0
             /\ datFile.exists
             /\ StoredOffset(major, minor) + StoredSize(major, minor) <= Len(datFile.bytes))
            => /\ calls[c].pc = "returned"
               /\ Len(calls[c].buffer) = StoredSize(major, minor)
               /\ \A i \in 0..(StoredSize(major, minor) - 1) :
                     calls[c].buffer[i + 1] = datFile.bytes[StoredOffset(major, minor) + i + 1]

\* a call returned a 256-byte record (size bytes 00 01 00) from a nonzero offset
C1_Witness ==
    \E c \in DOMAIN calls :
        /\ calls[c].pc = "returned"
        /\ Len(calls[c].buffer) = 256
        /\ calls[c].offset = 1

\* C3: the listing of getCacheIndex has an entry at recordId r exactly when
\* r < floor(L/6) and the 3-byte big-endian size at byte 6r is positive; the
\* entry carries that size and recordId r; empty slots are absent.
C3_IndexListsPositiveSizes ==
    (lastIndex.err = None) =>
        LET major == lastIndex.major
            L == Len(indexFiles[major])
        IN  /\ DOMAIN lastIndex.indices \subseteq 0..(L \div 6 - 1)
            /\ \A r \in 0..L :
                 /\ (r \in DOMAIN lastIndex.indices) <=>
                        (r < L \div 6 /\ StoredSize(major, r) > 0)
                 /\ (r \in DOMAIN lastIndex.indices) =>
                        /\ lastIndex.indices[r].size = StoredSize(major, r)
                        /\ lastIndex.indices[r].minor = r
                        /\ lastIndex.indices[r].major = major

\* a listing with a gap at 0, an entry at 1, and a trailing partial entry
C3_Witness ==
    /\ lastIndex.err = None
    /\ Len(indexFiles[lastIndex.major]) % 6 # 0
    /\ DOMAIN lastIndex.indices = {1}
    /\ lastIndex.indices[1].size = 256

\* C4: a getFile call on a registered category whose id is at or beyond
\* floor(L/6), or whose stored size is 0, never opens the data blob and, once
\* past the index lookup, has thrown the not-found error without any bytes.
C4_MissingRecordThrowsUnopened ==
    \A c \in DOMAIN calls :
        LET major == calls[c].major
            minor == calls[c].minor
        IN  (/\ calls[c].pc \notin {"idle", "readIndex"}
             /\ major \in DOMAIN indexFiles
             /\ \/ minor >= Len(indexFiles[major]) \div 6
                \/ StoredSize(major, minor) = 0)
            => /\ calls[c].pc = "threw"
               /\ calls[c].err \in {"NotFoundInIndex", "ZeroSize"}
               /\ ~calls[c].opened
               /\ c \notin openHandles
               /\ calls[c].buffer = <<>>

\* both cases have happened: an id beyond the index, and (another run) a zero size
C4_Witness ==
    \E c \in DOMAIN calls :
        /\ calls[c].pc = "threw"
        /\ calls[c].err = "ZeroSize"
        /\ calls[c].minor = 1
        /\ Len(indexFiles[calls[c].major]) = 16

C4_WitnessBeyond ==
    \E c \in DOMAIN calls :
        /\ calls[c].pc = "threw"
        /\ calls[c].err = "NotFoundInIndex"
        /\ calls[c].minor = Len(indexFiles[calls[c].major]) \div 6

\* C7: a finished getFile call holds no open blob handle, whatever the exit
\* path and interleaving; a handle is open only between open and close of its
\* own call; once every call has finished no handle is open.
C7_HandleClosedOnEveryExit ==
    /\ \A c \in DOMAIN calls : Finished(c) => c \notin openHandles
    /\ \A c \in openHandles : calls[c].pc \in {"read", "close"}
    /\ (\A c \in DOMAIN calls : Finished(c)) => openHandles = {}

\* two concurrent calls have finished, one by ShortRead and one by returning
C7_Witness ==
    /\ \A c \in DOMAIN calls : Finished(c)
    /\ \E c \in DOMAIN calls : calls[c].err = "ShortRead" /\ calls[c].opened
    /\ \E c \in DOMAIN calls : calls[c].pc = "returned"

--------------------------------------------------------------------------
(* Claims about selectFsCache *)

\* the number of files of each signature in the listing, by name
NumberOf(NameAt(_)) == Cardinality({i \in 0..9 : NameAt(i) \in files})
Modern == NumberOf(JcacheName)
LegacyIdx == NumberOf(IdxName)
OldCompressed == NumberOf(Dat2Name)
OldBinary == NumberOf(DatName)
Classic == NumberOf(JagName)
Highest == Max5(Modern, LegacyIdx, OldCompressed, OldBinary, Classic)

SelectCalled == selected.error # "not called"

\* the signature that wins: the highest count, ties by the precedence modern
\* cache, legacy-index + dat2, old-binary, classic
Winner ==
    IF Modern = Highest THEN "modern"
    ELSE IF LegacyIdx = Highest /\ OldCompressed > 0 THEN "legacy"
    ELSE IF OldBinary = Highest \/ OldCompressed = Highest THEN "old-binary"
    ELSE IF Classic = Highest THEN "classic"
    ELSE "none"

StoresOf(signature) ==
    CASE signature = "modern" -> {"GameCacheLoader", "WasmGameCacheLoader"}
      [] signature = "legacy" -> {"LegacyFileSource"}
      [] signature = "old-binary" -> {"OldBinaryFileSource"}
      [] signature = "classic" -> {"ClassicFileSource"}
      [] OTHER -> {}

\* C5: for every listing with at least one signature file (and a file system
\* with command-line capabilities), selectFsCache returns the store of the
\* signature with the highest count, ties resolved by the precedence order.
C5_HighestCountWins ==
    (SelectCalled /\ Highest > 0 /\ fs.class = "CLIScriptFS" /\ Winner # "none")
        => selected.store \in StoresOf(Winner)

\* C6: when the winning signature needs capabilities the file system lacks,
\* selectFsCache throws and returns no store.
C6_NoStoreWithoutCapability ==
    SelectCalled =>
        /\ (Highest > 0 /\ Winner = "modern"
                /\ ~(fs.class = "CLIScriptFS" \/ (fs.class = "WebFsScriptFS" /\ fs.roothandle)))
              => selected.store = None
        /\ (Winner = "legacy" /\ fs.class # "CLIScriptFS")
              => selected.store = None

\* the two scenarios of C5: 5 idx files and one dat2 give the legacy store,
\* 3 jcache files and one dat give the modern store
C5_Scenarios ==
    (SelectCalled /\ fs.class = "CLIScriptFS") =>
        /\ (LegacyIdx = 5 /\ OldCompressed = 1 /\ Modern = 0 /\ OldBinary = 0 /\ Classic = 0)
              => selected.store = "LegacyFileSource"
        /\ (Modern = 3 /\ OldBinary = 1 /\ LegacyIdx = 0 /\ OldCompressed = 0 /\ Classic = 0)
              => selected.store = "GameCacheLoader"

--------------------------------------------------------------------------
(* Claims about Build727ClientscriptObfuscation *)

\* the immediate kind the first declared parameter type of each opcode of
\* CodecDefs implies
ImpliedKind(opcode) ==
    IF opcode \in {16640, 258} THEN "number"
    ELSE IF opcode = 65 THEN "string"
    ELSE "null"
KindMatches(x) == x.imm_obj.kind = ImpliedKind(x.opcode)

\* the instruction was written and then read from the same start position,
\* with the stream end at or after the end of the written bytes
RoundTripDone ==
    /\ phase = "decoded"
    /\ rstate.endoffset >= wstate.scan

SameInstruction ==
    /\ decoded.opcode = instr.opcode
    /\ decoded.imm = instr.imm
    /\ decoded.imm_obj = instr.imm_obj
    /\ rstate.scan = wstate.scan

\* text without U+0000 and without unpaired surrogates
TerminatorFree(t) == \A i \in 1..Len(t) : t[i] # 0
WellFormedUtf16(t) ==
    \A i \in 1..Len(t) :
        /\ IsHighSurrogate(t[i]) => (i < Len(t) /\ IsLowSurrogate(t[i + 1]))
        /\ IsLowSurrogate(t[i]) => (i > 1 /\ IsHighSurrogate(t[i - 1]))

\* C2 as stated: for any instruction whose immediate kind matches its opcode's
\* first declared parameter type, writeOpCode followed by readOpcode from the
\* same start yields the same opcode, immediate value and immediate kind, and
\* the read cursor ends where the write cursor ended.
C2_Original ==
    (RoundTripDone /\ KindMatches(instr)) => SameInstruction

\* C2 amended: the same, for instructions whose string immediate contains no
\* U+0000 character and no unpaired surrogate.
C2_RoundTripOfTerminatorFreeText ==
    (/\ RoundTripDone
     /\ KindMatches(instr)
     /\ TerminatorFree(instr.imm_obj.str)
     /\ WellFormedUtf16(instr.imm_obj.str))
    => SameInstruction

\* a string immediate holding a surrogate pair (four UTF-8 bytes) has made the
\* round trip
C2_Witness ==
    /\ RoundTripDone
    /\ instr.opcode = 65
    /\ instr.imm_obj = StrObj(<<55296, 56320>>)
    /\ decoded.imm_obj = instr.imm_obj
    /\ rstate.scan = wstate.scan
    /\ wstate.scan = 8

\* readOpcode has returned from a call on the stream as it stood, started at
\* a position with at least the two opcode bytes before the stream end
ReadReturned ==
    /\ phase = "read"
    /\ wstate.scan + 2 <= rstate.endoffset

\* C11: readOpcode never moves the cursor past the end of the stream: started
\* at a position with position + 2 <= endoffset, the cursor it leaves is at
\* most endoffset, also for a string immediate with no zero byte before
\* endoffset.
C11_CursorWithinStream ==
    ReadReturned => rstate.scan <= rstate.endoffset

--------------------------------------------------------------------------
(* Claims about CS2OpcodeMappings and the mapping load *)

IsDef(i) == defLines[i].kind = "def"
DefIndexes == {i \in 1..Len(defLines) : IsDef(i)}
LastForOpcode(i) ==
    \A j \in DefIndexes : j > i => defLines[j].opcode # defLines[i].opcode
LastForName(i) ==
    \A j \in DefIndexes : j > i => defLines[j].name # defLines[i].name

\* C8 as stated: after parsing, every well-formed definition line (the later
\* one when an opcode is defined twice) has lookupByOpcode(opcode).name = name
\* and lookupByName(name) = opcode.
C8_Original ==
    (loadState = "loaded") =>
        \A i \in DefIndexes : LastForOpcode(i) =>
            /\ HasOpcode(cs2Mappings, defLines[i].opcode)
            /\ GetMapping(cs2Mappings, defLines[i].opcode).name = defLines[i].name
            /\ HasName(cs2Mappings, defLines[i].name)
            /\ GetOpcodeByName(cs2Mappings, defLines[i].name) = defLines[i].opcode

\* C8 amended: after parsing, a well-formed line that no later well-formed
\* line repeats the opcode of has lookupByOpcode(opcode).name = name, and a
\* well-formed line that no later well-formed line repeats the name of has
\* lookupByName(name) = opcode; the later definition wins in both maps.
C8_LastWriteWinsPerMap ==
    (loadState = "loaded") =>
        \A i \in DefIndexes :
            /\ LastForOpcode(i) =>
                 /\ HasOpcode(cs2Mappings, defLines[i].opcode)
                 /\ GetMapping(cs2Mappings, defLines[i].opcode).name = defLines[i].name
                 /\ GetMapping(cs2Mappings, defLines[i].opcode).opcode = defLines[i].opcode
            /\ LastForName(i) =>
                 /\ HasName(cs2Mappings, defLines[i].name)
                 /\ GetOpcodeByName(cs2Mappings, defLines[i].name) = defLines[i].opcode

\* a table parsed from a file that defines opcode 1 twice and name a twice
C8_Witness ==
    /\ loadState = "loaded"
    /\ Len(defLines) = 3
    /\ \A i \in 1..3 : IsDef(i)
    /\ defLines[1].opcode = defLines[2].opcode
    /\ defLines[1].name = defLines[3].name
    /\ defLines[1].name # defLines[2].name
    /\ GetMapping(cs2Mappings, 1).name = <<"b">>
    /\ GetOpcodeByName(cs2Mappings, <<"a">>) = 2

\* C9 as stated: malformed lines contribute no entry, later lines are still
\* processed, and the table size equals the number of valid lines.
C9_Original ==
    (loadState = "loaded") =>
        Len(GetAllMappings(cs2Mappings)) = Cardinality(DefIndexes)

\* C9 amended: malformed lines (fewer than 3 tokens, or a first token parseInt
\* reads no integer from) contribute no entry to either map, later lines are
\* still processed, and the table size equals the number of distinct opcodes
\* among the valid lines.
C9_SizeIsDistinctValidOpcodes ==
    (loadState = "loaded") =>
        /\ Len(GetAllMappings(cs2Mappings)) =
               Cardinality({defLines[i].opcode : i \in DefIndexes})
        /\ {GetAllMappings(cs2Mappings)[k].opcode : k \in 1..Len(cs2Mappings.mappings)} =
               {defLines[i].opcode : i \in DefIndexes}
        /\ {cs2Mappings.nameToOpcode[k].key : k \in 1..Len(cs2Mappings.nameToOpcode)} =
               {defLines[i].name : i \in DefIndexes}

\* a table parsed from a malformed line, a short line and then a valid line
C9_Witness ==
    /\ loadState = "loaded"
    /\ Len(defLines) = 3
    /\ defLines[1].kind = "bad" /\ defLines[1].name = <<"e">>
    /\ defLines[2].kind = "bad" /\ defLines[2].name = <<"f">>
    /\ defLines[3].kind = "def"
    /\ Len(GetAllMappings(cs2Mappings)) = 1

\* C10 as stated: after the constructor has returned every getDecodeArgs call
\* gives the same answer: a decoder when the definition file is readable,
\* none when it is not.
C10_SameAnswerAfterConstruction ==
    /\ Cardinality(decodeAnswers) <= 1
    /\ (defFile.given /\ defFile.readable) => decodeAnswers \subseteq {TRUE}
    /\ ~(defFile.given /\ defFile.readable) => decodeAnswers \subseteq {FALSE}

==========================================================================
